---- MODULE Spec2Model ----
(***************************************************************************)
(* A model of the chunked blob layer of python-fdbfs (fdbkit/blob.py):     *)
(* blobs are stored in an ordered transactional key-value store as chunks  *)
(* keyed by (blob key, chunk index); reader and writer handles keep a      *)
(* cursor and run each call as one transaction.                            *)
(***************************************************************************)
EXTENDS Integers, Sequences, FiniteSets, TLC

(***************************************************************************)
(* Bounds of the model.                                                    *)
(***************************************************************************)
\* chunk_size is drawn from 1..MaxChunkSize when the store is constructed
MaxChunkSize == 3
\* no write is issued that would end beyond MaxBlob bytes or MaxChunks chunks
MaxBlob == 6
MaxChunks == 2
\* longest byte sequence handed to one write call
MaxData == 2
\* largest size handed to read
MaxRead == 4

\* byte values: two are enough to tell a written byte from a stored one
Byte == {0, 1}

Keys == {"k1"}
\* a blob key that no handle is kept on: reached through BlobManager only
OtherKeys == {"k2"}
AllKeys == Keys \cup OtherKeys
Writers == {"w1"}
Readers == {"r1"}
Handles == Writers \cup Readers

\* whence values of os: SEEK_SET, SEEK_CUR, SEEK_END
SEEK_SET == 0
SEEK_CUR == 1
SEEK_END == 2
\* the whence values tried, one of them unsupported
Whences == {SEEK_SET, SEEK_CUR, SEEK_END, 3}

\* read(size=None): the size argument left out
NoSize == -1

RECURSIVE SeqsUpTo(_)
SeqsUpTo(n) ==
    IF n = 0 THEN {<<>>}
    ELSE LET S == SeqsUpTo(n - 1)
         IN  S \cup {Append(s, b) : s \in {t \in S : Len(t) = n - 1}, b \in Byte}

\* the byte sequences handed to write
Data == SeqsUpTo(MaxData)

Min(a, b) == IF a < b THEN a ELSE b
Max(a, b) == IF a > b THEN a ELSE b
MaxOf(S) == CHOOSE m \in S : \A n \in S : n <= m

\* Python's s[a:b] and s[a:] for 0 <= a
Slice(s, a, b) == SubSeq(s, a + 1, Min(b, Len(s)))
SliceFrom(s, a) == SubSeq(s, a + 1, Len(s))

\* the chunks of one blob: a function from the chunk indices present to bytes
NoChunks == <<>>

VARIABLES
    chunk_size,   \* BlobManager._chunk_size, the same for every handle
    db,           \* the committed store: blob key -> chunks
    cursor,       \* handle -> BlobIO._cursor
    closed,       \* handle -> BlobIO._closed
    last,         \* the call that completed last: its arguments and outcome
    written,      \* history: the bytes appended so far by the appending writer
    txn           \* writer -> its write transaction while the body is running

vars == <<chunk_size, db, cursor, closed, last, written, txn>>

\* the offset no modelled write goes beyond
Capacity == Min(MaxBlob, MaxChunks * chunk_size)

\* the blob key a handle was opened on (get_reader / get_writer)
KeyOf(h) == "k1"

(***************************************************************************)
(* BlobIO._get_size: base of the highest chunk plus its length, 0 if none. *)
(***************************************************************************)
\* a size that takes the highest chunk to be full
_get_size_full(chunks) ==
    IF DOMAIN chunks = {} THEN 0
    ELSE (MaxOf(DOMAIN chunks) + 1) * chunk_size

_get_size(chunks) ==
    IF DOMAIN chunks = {} THEN 0
    ELSE LET last_chunk_index == MaxOf(DOMAIN chunks)
             last_chunk_cursor == last_chunk_index * chunk_size
         IN  last_chunk_cursor + Len(chunks[last_chunk_index])

(***************************************************************************)
(* BlobIO._seek: the candidate by whence, clamped into [0, size]; an       *)
(* unknown whence raises NotImplementedError.                              *)
(***************************************************************************)
\* a seek that does not clamp at 0
_seek_no_floor(chunks, current, delta, whence) ==
    LET l == _get_size(chunks)
        new_cursor == CASE whence = SEEK_SET -> delta
                        [] whence = SEEK_CUR -> current + delta
                        [] whence = SEEK_END -> l + delta
                        [] OTHER -> 0
    IN  IF whence \in {SEEK_SET, SEEK_CUR, SEEK_END}
        THEN [err |-> "none", cursor |-> Min(new_cursor, l)]
        ELSE [err |-> "whence", cursor |-> current]

\* a seek that does not clamp at the size
_seek_no_ceiling(chunks, current, delta, whence) ==
    LET l == _get_size(chunks)
        new_cursor == CASE whence = SEEK_SET -> delta
                        [] whence = SEEK_CUR -> current + delta
                        [] whence = SEEK_END -> l + delta
                        [] OTHER -> 0
    IN  IF whence \in {SEEK_SET, SEEK_CUR, SEEK_END}
        THEN [err |-> "none", cursor |-> Max(new_cursor, 0)]
        ELSE [err |-> "whence", cursor |-> current]

\* a seek that takes any other whence for SEEK_SET
_seek_any_whence(chunks, current, delta, whence) ==
    LET l == _get_size(chunks)
        new_cursor == CASE whence = SEEK_CUR -> current + delta
                        [] whence = SEEK_END -> l + delta
                        [] OTHER -> delta
    IN  [err |-> "none", cursor |-> Min(Max(new_cursor, 0), l)]

_seek(chunks, current, delta, whence) ==
    LET l == _get_size(chunks)
        new_cursor == CASE whence = SEEK_SET -> delta
                        [] whence = SEEK_CUR -> current + delta
                        [] whence = SEEK_END -> l + delta
                        [] OTHER -> 0
    IN  IF whence \in {SEEK_SET, SEEK_CUR, SEEK_END}
        THEN [err |-> "none", cursor |-> Min(Max(new_cursor, 0), l)]
        ELSE [err |-> "whence", cursor |-> current]

(***************************************************************************)
(* BlobWriter._write: the result of one run of the body on the chunks of   *)
(* one blob (ok is FALSE when the assertion fails), with the chunk indices *)
(* it set.                                                                 *)
(***************************************************************************)
Put(chunks, i, v) ==
    [j \in DOMAIN chunks \cup {i} |-> IF j = i THEN v ELSE chunks[j]]

\* a merge that drops the old bytes before the cursor
MergeChunkNoPrefix(chunk, off, buf) ==
    Slice(buf, 0, chunk_size - off)

\* boundary merge: the old chunk up to the cursor, then the input that fits
MergeChunk(chunk, off, buf) ==
    Slice(chunk, 0, off) \o Slice(buf, 0, chunk_size - off)

\* the cursor after a boundary merge that stored new_chunk
MergeCursor(start_cursor, new_chunk) ==
    IF Len(new_chunk) = chunk_size
    THEN start_cursor + chunk_size
    ELSE start_cursor + Len(new_chunk)

\* a loop of len / chunk_size + 1 rounds: one more when the length divides
AlignedKeysOneMore(chunk_index, data) ==
    LET n == (Len(data) \div chunk_size) + 1
    IN  chunk_index .. (chunk_index + n - 1)

\* the aligned loop: ceil(len / chunk_size) slices stored from chunk_index on
AlignedKeys(chunk_index, data) ==
    LET n == (Len(data) + chunk_size - 1) \div chunk_size
    IN  chunk_index .. (chunk_index + n - 1)

AlignedChunks(chunks, chunk_index, data) ==
    LET new == AlignedKeys(chunk_index, data)
    IN  [j \in DOMAIN chunks \cup new |->
            IF j \in new
            THEN Slice(data, (j - chunk_index) * chunk_size,
                             (j - chunk_index + 1) * chunk_size)
            ELSE chunks[j]]

RECURSIVE _write(_, _, _)
_write(chunks, cur, data) ==
    LET chunk_index == cur \div chunk_size
        start_cursor == chunk_index * chunk_size
    IN  IF start_cursor # cur
        THEN IF chunk_index \notin DOMAIN chunks
             THEN \* assert chunk.present() fails
                  [ok |-> FALSE, chunks |-> chunks, cursor |-> cur, keys |-> {}]
             ELSE LET next_cursor == start_cursor + chunk_size
                      new_chunk == MergeChunk(chunks[chunk_index],
                                              cur - start_cursor, data)
                      stored == Put(chunks, chunk_index, new_chunk)
                      buf == SliceFrom(data, next_cursor - cur)
                      cur2 == MergeCursor(start_cursor, new_chunk)
                      rec == _write(stored, cur2, buf)
                  IN  IF Len(buf) = 0
                      THEN [ok |-> TRUE, chunks |-> stored, cursor |-> cur2,
                            keys |-> {chunk_index}]
                      ELSE [rec EXCEPT !.keys = @ \cup {chunk_index}]
        ELSE [ok |-> TRUE,
              chunks |-> AlignedChunks(chunks, chunk_index, data),
              cursor |-> cur + Len(data),
              keys |-> AlignedKeys(chunk_index, data)]

(***************************************************************************)
(* BlobReader._read_chunk: one range scan from the cursor's chunk, to the  *)
(* chunk of cursor + size or to the end of the blob.  A size of 0 is       *)
(* falsy in "if size:", like no size.                                      *)
(***************************************************************************)
Truthy(size) == size # NoSize /\ size # 0

\* the indices the range scan returns
ScanRange(chunks, cur, size) ==
    {i \in DOMAIN chunks :
        /\ i >= cur \div chunk_size
        /\ Truthy(size) => i <= (cur + size) \div chunk_size}

\* the whole chunk, not cut at the cursor
ChunkTailWhole(v, off) == v

\* v[cursor - start_cursor:]
ChunkTail(v, off) == SliceFrom(v, off)

RECURSIVE ReadLoop(_, _, _, _, _)
ReadLoop(chunks, idxs, cur, size, buf) ==
    IF idxs = {} THEN [buf |-> buf, cursor |-> cur]
    ELSE LET chunk_index == CHOOSE i \in idxs : \A j \in idxs : i <= j
             rest == idxs \ {chunk_index}
             start_cursor == chunk_index * chunk_size
         IN  IF cur >= start_cursor
             THEN LET tail == ChunkTail(chunks[chunk_index], cur - start_cursor)
                      cut == Truthy(size) /\ size < Len(tail)
                      chunk == IF cut THEN Slice(tail, 0, size) ELSE tail
                      size2 == IF Truthy(size) /\ ~cut
                               THEN size - Len(tail) ELSE size
                  IN  IF size2 = 0
                      THEN [buf |-> buf \o chunk, cursor |-> cur + Len(chunk)]
                      ELSE ReadLoop(chunks, rest, cur + Len(chunk), size2,
                                    buf \o chunk)
             ELSE ReadLoop(chunks, rest, cur, size, buf)

_read_chunk(chunks, cur, size) ==
    ReadLoop(chunks, ScanRange(chunks, cur, size), cur, size, <<>>)

(***************************************************************************)
(* The calls.  Each runs as one transaction and is one step.               *)
(***************************************************************************)
\* op, the handle or key, the data written or the size read, the cursor a
\* write or read started from (0 for the other calls), the bytes or the flag
\* returned, and the error raised
Call(op, h, arg, cur0, ret, flag, err) ==
    [op |-> op, h |-> h, arg |-> arg, cur0 |-> cur0, ret |-> ret,
     flag |-> flag, err |-> err]

\* no transaction body running
IdleTxn ==
    [pc |-> "idle", data |-> <<>>, cur |-> 0, buf |-> <<>>, ws |-> NoChunks,
     rd |-> {}, stale |-> FALSE, retried |-> FALSE]

\* a handle's calls are made one after the other
Idle(h) == h \in Writers => txn[h].pc = "idle"

\* a commit that set the chunks idxs of blob k: every transaction that has
\* read one of them from the store will fail its commit and run again
MarkStale(k, idxs) ==
    [w \in Writers |->
        IF KeyOf(w) = k /\ txn[w].rd \cap idxs # {}
        THEN [txn[w] EXCEPT !.stale = TRUE]
        ELSE txn[w]]

AllChunks == 0 .. MaxBlob

Init ==
    /\ chunk_size \in 1..MaxChunkSize
    /\ db = [k \in AllKeys |-> NoChunks]
    /\ cursor = [h \in Handles |-> 0]
    /\ closed = [h \in Handles |-> FALSE]
    /\ last = Call("init", "", <<>>, 0, <<>>, FALSE, "none")
    /\ written = <<>>
    /\ txn = [w \in Writers |-> IdleTxn]

\* a write whose failed call still moves the cursor
WriteCallMoving(w, d) ==
    /\ Idle(w)
    /\ cursor[w] + Len(d) <= Capacity
    /\ IF closed[w]
       THEN /\ last' = Call("write", w, d, cursor[w], <<>>, FALSE, "closed")
            /\ UNCHANGED <<db, cursor, txn>>
       ELSE LET r == _write(db[KeyOf(w)], cursor[w], d)
            IN  /\ db' = [db EXCEPT ![KeyOf(w)] = r.chunks]
                /\ cursor' = [cursor EXCEPT ![w] = cursor[w] + Len(d)]
                /\ txn' = MarkStale(KeyOf(w), r.keys)
                /\ last' = Call("write", w, d, cursor[w], <<>>, FALSE,
                                IF r.ok THEN "none" ELSE "missing")
    /\ UNCHANGED <<chunk_size, closed>>

\* BlobWriter.write(data) on handle w
WriteCall(w, d) ==
    /\ Idle(w)
    /\ cursor[w] + Len(d) <= Capacity
    /\ IF closed[w]
       THEN /\ last' = Call("write", w, d, cursor[w], <<>>, FALSE, "closed")
            /\ UNCHANGED <<db, cursor, txn>>
       ELSE LET r == _write(db[KeyOf(w)], cursor[w], d)
            IN  IF r.ok
                THEN /\ db' = [db EXCEPT ![KeyOf(w)] = r.chunks]
                     /\ cursor' = [cursor EXCEPT ![w] = r.cursor]
                     /\ txn' = MarkStale(KeyOf(w), r.keys)
                     /\ last' = Call("write", w, d, cursor[w], <<>>, FALSE, "none")
                ELSE /\ last' = Call("write", w, d, cursor[w], <<>>, FALSE, "missing")
                     /\ UNCHANGED <<db, cursor, txn>>
    /\ UNCHANGED <<chunk_size, closed>>

Write(w, d) == WriteCall(w, d) /\ UNCHANGED written

\* the same call on a writer that is never moved by seek: the bytes it
\* has written are recorded
AppendWrite(w, d) ==
    /\ WriteCall(w, d)
    /\ written' = IF last'.err = "none" THEN written \o d ELSE written

\* BlobIO.seek(cursor, whence) on handle h; arg is what the record of the
\* call keeps of its arguments
SeekCall(h, delta, whence, arg) ==
    /\ Idle(h)
    /\ IF closed[h]
       THEN /\ last' = Call("seek", h, arg, 0, <<>>, FALSE, "closed")
            /\ UNCHANGED cursor
       ELSE LET r == _seek(db[KeyOf(h)], cursor[h], delta, whence)
            IN  /\ cursor' = [cursor EXCEPT ![h] = r.cursor]
                /\ last' = Call("seek", h, arg, 0, <<>>, FALSE, r.err)
    /\ UNCHANGED <<chunk_size, db, closed, written, txn>>

Seek(h, delta, whence) == SeekCall(h, delta, whence, <<>>)

\* the same call, recorded with its arguments
SeekLogged(h, delta, whence) == SeekCall(h, delta, whence, <<delta, whence>>)

\* a read that does not look at _closed
ReadUnchecked(h, size) ==
    /\ LET r == _read_chunk(db[KeyOf(h)], cursor[h], size)
       IN  /\ cursor' = [cursor EXCEPT ![h] = r.cursor]
           /\ last' = Call("read", h, <<size>>, cursor[h], r.buf, FALSE, "none")
    /\ UNCHANGED <<chunk_size, db, closed, written, txn>>

\* BlobReader.read(size) on handle h
Read(h, size) ==
    /\ IF closed[h]
       THEN /\ last' = Call("read", h, <<size>>, cursor[h], <<>>, FALSE, "closed")
            /\ UNCHANGED cursor
       ELSE LET r == _read_chunk(db[KeyOf(h)], cursor[h], size)
            IN  /\ cursor' = [cursor EXCEPT ![h] = r.cursor]
                /\ last' = Call("read", h, <<size>>, cursor[h], r.buf, FALSE, "none")
    /\ UNCHANGED <<chunk_size, db, closed, written, txn>>

\* BlobIO.close() on handle h, called directly or by __exit__ at the end of
\* a with-scope
Close(h) ==
    /\ Idle(h)
    /\ closed' = [closed EXCEPT ![h] = TRUE]
    /\ last' = Call("close", h, <<>>, 0, <<>>, FALSE, "none")
    /\ UNCHANGED <<chunk_size, db, cursor, written, txn>>

\* BlobManager.write(key, data): a fresh writer, one write, closed on exit
MWrite(k, d) ==
    LET r == _write(db[k], 0, d)
    IN  /\ Len(d) <= Capacity
        /\ db' = [db EXCEPT ![k] = r.chunks]
        /\ txn' = MarkStale(k, r.keys)
        /\ last' = Call("mwrite", k, d, 0, <<>>, FALSE, "none")
        /\ UNCHANGED <<chunk_size, cursor, closed, written>>

\* BlobManager.read(key): a fresh reader, one read() without size
MRead(k) ==
    LET r == _read_chunk(db[k], 0, NoSize)
    IN  /\ last' = Call("mread", k, <<>>, 0, r.buf, FALSE, "none")
        /\ UNCHANGED <<chunk_size, db, cursor, closed, written, txn>>

\* a delete of the first chunk's key only
ClearFirst(chunks) == [j \in DOMAIN chunks \ {0} |-> chunks[j]]

\* del tr[space.range()]: every chunk of the key
ClearRange(chunks) == NoChunks

\* BlobManager.delete(key): clears the key's whole range
_delete(k) ==
    /\ db' = [db EXCEPT ![k] = ClearRange(@)]
    /\ txn' = MarkStale(k, AllChunks)
    /\ last' = Call("delete", k, <<>>, 0, <<>>, FALSE, "none")
    /\ UNCHANGED <<chunk_size, cursor, closed, written>>

\* get_range(r.start, r.stop, limit=1, reverse=True): the highest chunk index
LastItems(chunks) ==
    {i \in DOMAIN chunks : \A j \in DOMAIN chunks : j <= i}

\* BlobManager.exists(key): a reverse range probe of one item
exists(k) ==
    /\ last' = Call("exists", k, <<>>, 0, <<>>,
                    Cardinality(LastItems(db[k])) > 0, "none")
    /\ UNCHANGED <<chunk_size, db, cursor, closed, written, txn>>

\* the seeks tried: every absolute offset from below 0 to beyond the
\* capacity, and short relative moves for the other whence values
SeekArgs ==
    {<<delta, SEEK_SET>> : delta \in -1 .. (MaxBlob + 1)}
        \cup ({-1, 0, 1} \X (Whences \ {SEEK_SET}))

\* one writer handle that writes and seeks to any offset, and whole-blob
\* calls of other callers on the same key
Next ==
    \/ \E w \in Writers, d \in Data : Write(w, d)
    \/ \E w \in Writers, c \in 0..MaxBlob : Seek(w, c, SEEK_SET)
    \/ \E k \in Keys, d \in Data : MWrite(k, d)
    \/ \E k \in Keys : MRead(k)
    \/ \E k \in Keys : _delete(k)

Spec == Init /\ [][Next]_vars

\* one writer handle alone on the blob: write and seek
NextWriter ==
    \/ \E w \in Writers, d \in Data : Write(w, d)
    \/ \E w \in Writers, a \in SeekArgs : Seek(w, a[1], a[2])

SpecWriter == Init /\ [][NextWriter]_vars

\* a writer that only appends, and a reader handle on the same blob
ReadSizes == {NoSize} \cup 0..MaxRead

NextAppend ==
    \/ \E w \in Writers, d \in Data : AppendWrite(w, d)
    \/ \E r \in Readers, a \in SeekArgs : Seek(r, a[1], a[2])
    \/ \E r \in Readers, size \in ReadSizes : Read(r, size)

SpecAppend == Init /\ [][NextAppend]_vars

\* one writer handle that writes and seeks, and deletes of its blob by
\* another caller, which leave the cursor beyond the blob
NextSeek ==
    \/ \E w \in Writers, d \in Data : Write(w, d)
    \/ \E w \in Writers, a \in SeekArgs : SeekLogged(w, a[1], a[2])
    \/ \E k \in Keys : _delete(k)

SpecSeek == Init /\ [][NextSeek]_vars

\* a writer and a reader handle on one blob, each closed at any time and
\* called again afterwards: writes of the same two bytes, seeks back to the
\* start, reads of one byte or of the rest
NextClose ==
    \/ \E w \in Writers : Write(w, <<0, 1>>)
    \/ \E h \in Handles : Seek(h, 0, SEEK_SET)
    \/ \E r \in Readers, size \in {NoSize, 1} : Read(r, size)
    \/ \E h \in Handles : Close(h)

SpecClose == Init /\ [][NextClose]_vars

\* two blob keys: whole-blob calls on both, and a handle on the first that
\* asks for the size (seek to the end)
NextKeys ==
    \/ \E k \in AllKeys, d \in Data : MWrite(k, d)
    \/ \E k \in AllKeys : _delete(k)
    \/ \E k \in AllKeys : exists(k)
    \/ \E h \in Handles : Seek(h, 0, SEEK_END)

SpecKeys == Init /\ [][NextKeys]_vars

(***************************************************************************)
(* fdbfs/blob.py, the module the tests import.  Its BlobWriter has the     *)
(* same _write; its BlobReader reads the one chunk the cursor is in, whole,*)
(* and its seek assigns the cursor as given.                               *)
(***************************************************************************)
\* tr[key] of a key that is not stored: a value that is not present
NotPresent == <<-1>>

\* fdbfs BlobReader._read_chunk(tr, cursor)
fdbfs_read_chunk(chunks, cur) ==
    LET chunk_index == cur \div chunk_size
    IN  IF chunk_index \in DOMAIN chunks THEN chunks[chunk_index]
        ELSE NotPresent

\* fdbfs BlobReader.read(size=None): the cursor stays where it is
FdbfsRead(r) ==
    /\ last' = Call("fdbfs.read", r, <<NoSize>>, cursor[r],
                    fdbfs_read_chunk(db[KeyOf(r)], cursor[r]), FALSE, "none")
    /\ UNCHANGED <<chunk_size, db, cursor, closed, written, txn>>

\* fdbfs BlobReader.seek(cursor)
FdbfsSeek(r, c) ==
    /\ cursor' = [cursor EXCEPT ![r] = c]
    /\ last' = Call("fdbfs.seek", r, <<>>, 0, <<>>, FALSE, "none")
    /\ UNCHANGED <<chunk_size, db, closed, written, txn>>

\* the test cases: a writer that appends, and a reader of fdbfs.blob that
\* seeks and reads
NextFdbfs ==
    \/ \E w \in Writers, d \in Data : AppendWrite(w, d)
    \/ \E r \in Readers, c \in 0..MaxBlob : FdbfsSeek(r, c)
    \/ \E r \in Readers : FdbfsRead(r)

SpecFdbfs == Init /\ [][NextFdbfs]_vars

(***************************************************************************)
(* BlobWriter.write step by step: @fdb.transactional creates a transaction *)
(* and runs the body of _write in it; a recursive call is handed the same  *)
(* transaction.  tr[key] reads the transaction's own write or else the     *)
(* store, tr[key] = value is kept in the transaction, and the commit       *)
(* installs all of it at once unless a chunk that was read from the store  *)
(* has been set by a later commit, in which case the body runs again in a  *)
(* new transaction.  The handle's cursor is assigned after the commit.     *)
(***************************************************************************)
Overlay(chunks, ws) ==
    [j \in DOMAIN chunks \cup DOMAIN ws |->
        IF j \in DOMAIN ws THEN ws[j] ELSE chunks[j]]

\* a set that goes to the store at once, as self._db[key] = value would
VisibleAtOnce(chunks, ws) == Overlay(chunks, ws)

\* what the store holds after the body has set ws in its transaction tr
Visible(chunks, ws) == chunks

\* a retry that goes on from where the aborted attempt stopped
RestartTxnKeepingCursor(w, d, again) ==
    [pc |-> "body", data |-> d,
     cur |-> IF again THEN txn[w].cur ELSE cursor[w],
     buf |-> d, ws |-> NoChunks, rd |-> {}, stale |-> FALSE, retried |-> again]

\* a new transaction for the body, called with the handle's cursor and the
\* data of the call; again tells a retry from the first attempt
StartTxn(w, d, again) ==
    [pc |-> "body", data |-> d, cur |-> cursor[w], buf |-> d, ws |-> NoChunks,
     rd |-> {}, stale |-> FALSE, retried |-> again]

\* write(data) is called: the transaction is created
TBegin(w, d) ==
    /\ txn[w].pc = "idle"
    /\ ~closed[w]
    /\ cursor[w] + Len(d) <= Capacity
    /\ txn' = [txn EXCEPT ![w] = StartTxn(w, d, FALSE)]
    /\ UNCHANGED <<chunk_size, db, cursor, closed, last, written>>

\* one run of the body of _write(tr, cur, buf)
TBody(w) ==
    LET t == txn[w]
        k == KeyOf(w)
        chunk_index == t.cur \div chunk_size
        start_cursor == chunk_index * chunk_size
        own == chunk_index \in DOMAIN t.ws
    IN  /\ t.pc = "body"
        /\ IF start_cursor # t.cur
           THEN IF ~own /\ chunk_index \notin DOMAIN db[k]
                THEN \* the assertion fails: nothing is committed
                     /\ txn' = [txn EXCEPT ![w] = IdleTxn]
                     /\ last' = Call("write", w, t.data, cursor[w], <<>>,
                                     FALSE, "missing")
                     /\ UNCHANGED db
                ELSE LET chunk == IF own THEN t.ws[chunk_index]
                                  ELSE db[k][chunk_index]
                         new_chunk == MergeChunk(chunk, t.cur - start_cursor,
                                                 t.buf)
                         buf == SliceFrom(t.buf,
                                          start_cursor + chunk_size - t.cur)
                         ws == Put(t.ws, chunk_index, new_chunk)
                     IN  /\ txn' = [txn EXCEPT ![w] =
                               [t EXCEPT
                                  !.pc = IF Len(buf) = 0 THEN "commit"
                                         ELSE "body",
                                  !.cur = MergeCursor(start_cursor, new_chunk),
                                  !.buf = buf,
                                  !.ws = ws,
                                  !.rd = IF own THEN @
                                         ELSE @ \cup {chunk_index}]]
                         /\ db' = [db EXCEPT ![k] = Visible(@, ws)]
                         /\ UNCHANGED last
           ELSE LET ws == AlignedChunks(t.ws, chunk_index, t.buf)
                IN  /\ txn' = [txn EXCEPT ![w] =
                          [t EXCEPT !.pc = "commit",
                                    !.cur = t.cur + Len(t.buf),
                                    !.buf = <<>>,
                                    !.ws = ws]]
                    /\ db' = [db EXCEPT ![k] = Visible(@, ws)]
                    /\ UNCHANGED last
        /\ UNCHANGED <<chunk_size, cursor, closed, written>>

\* the commit succeeds: the writes are installed and write() assigns the
\* cursor the body returned
TCommit(w) ==
    LET t == txn[w]
        k == KeyOf(w)
    IN  /\ t.pc = "commit"
        /\ ~t.stale
        /\ db' = [db EXCEPT ![k] = Overlay(@, t.ws)]
        /\ cursor' = [cursor EXCEPT ![w] = t.cur]
        /\ txn' = [MarkStale(k, DOMAIN t.ws) EXCEPT ![w] = IdleTxn]
        /\ last' = Call("write", w, t.data, cursor[w], <<>>, FALSE, "none")
        /\ UNCHANGED <<chunk_size, closed, written>>

\* the commit fails on a conflict: the body runs again in a new transaction
TRetry(w) ==
    /\ txn[w].pc = "commit"
    /\ txn[w].stale
    /\ txn' = [txn EXCEPT ![w] = StartTxn(w, txn[w].data, TRUE)]
    /\ UNCHANGED <<chunk_size, db, cursor, closed, last, written>>

\* the writer's calls in steps, with whole-blob calls of other callers on
\* the same key in between
NextTxn ==
    \/ \E w \in Writers, d \in Data : TBegin(w, d)
    \/ \E w \in Writers : TBody(w)
    \/ \E w \in Writers : TCommit(w)
    \/ \E w \in Writers : TRetry(w)
    \/ \E k \in Keys, d \in Data : MWrite(k, d)
    \/ \E k \in Keys : MRead(k)
    \/ \E k \in Keys : _delete(k)

SpecTxn == Init /\ [][NextTxn]_vars

(***************************************************************************)
(* Properties.                                                             *)
(***************************************************************************)
HighestIndex(chunks) == MaxOf(DOMAIN chunks)

\* C1: BlobManager.write(key, B) followed by BlobManager.read(key) returns
\* exactly B, whatever the key held before.
RoundTrip ==
    [][(last.op = "mwrite" /\ last'.op = "mread" /\ last'.h = last.h)
          => last'.ret = last.arg]_vars

\* C2: every successful write(data) leaves the handle's cursor at its cursor
\* before the call plus len(data).
WriteAdvancesCursor ==
    (last.op = "write" /\ last.err = "none")
        => cursor[last.h] = last.cur0 + Len(last.arg)

\* C3: on a blob built by appends that holds the bytes D (written), read()
\* without size from cursor c returns D[c:] and leaves the cursor at len(D),
\* and seek(c) for 0 <= c <= len(D) puts the cursor at c.
SeekReadSuffix ==
    [][/\ (last'.op = "read" /\ last'.arg = <<NoSize>> /\ last'.err = "none")
            => /\ last'.ret = SliceFrom(written, cursor[last'.h])
               /\ cursor'[last'.h] = Len(written)
       /\ \A r \in Readers, c \in 0..Len(written) :
            Seek(r, c, SEEK_SET) => cursor'[r] = c]_vars

\* a read() that started inside a chunk and returned bytes of more than one
ReadAcrossChunks ==
    /\ last.op = "read" /\ last.arg = <<NoSize>> /\ last.err = "none"
    /\ last.cur0 % chunk_size # 0
    /\ Len(last.ret) > chunk_size
    /\ cursor[last.h] = Len(written)

\* C4: after any number of appending writes on one writer from an empty blob,
\* the size computed by _get_size is the total length written.
SizeAfterAppends ==
    \A k \in Keys : _get_size(db[k]) = Len(written)

\* a second or later append that ends inside a chunk beyond the first
AppendedUnaligned ==
    /\ last.op = "write" /\ last.err = "none"
    /\ Len(last.arg) % chunk_size # 0
    /\ Len(written) > Len(last.arg)
    /\ Len(written) > chunk_size
    /\ Len(written) % chunk_size # 0

\* C5: every chunk except the highest-indexed one has length chunk_size.
FullChunks ==
    \A k \in Keys : \A i \in DOMAIN db[k] :
        i # HighestIndex(db[k]) => Len(db[k][i]) = chunk_size

\* C6: the chunk indices present are none or exactly 0 .. highest index.
Contiguous ==
    \A k \in Keys :
        DOMAIN db[k] = {} \/ DOMAIN db[k] = 0 .. HighestIndex(db[k])

\* C7: one write call commits as one transaction: while its body runs (the
\* boundary merge, the recursive call) the store does not change, so a read
\* in between sees none of it, and the commit installs at once all that one
\* run of _write changes, together with the cursor it returns.
CommitStep(w) == txn[w].pc = "commit" /\ txn'[w].pc = "idle"

OwnStep(w) ==
    [txn'[w] EXCEPT !.stale = txn[w].stale] # txn[w]

WriteIsAtomic ==
    [][\A w \in Writers :
          /\ CommitStep(w)
               => LET r == _write(db[KeyOf(w)], cursor[w], txn[w].data)
                  IN  /\ r.ok
                      /\ db'[KeyOf(w)] = r.chunks
                      /\ cursor'[w] = r.cursor
          /\ (OwnStep(w) /\ ~CommitStep(w)) => db' = db]_vars

\* a read ran between the boundary merge and the rest of the same write,
\* and returned the blob without the merged chunk
ReadBetweenMergeAndRest ==
    \E w \in Writers :
        /\ txn[w].pc = "body"
        /\ DOMAIN txn[w].ws # {}
        /\ Len(txn[w].buf) > 0
        /\ last.op = "mread" /\ last.h = KeyOf(w)
        /\ \E i \in DOMAIN txn[w].ws :
              /\ i \in DOMAIN db[KeyOf(w)]
              /\ db[KeyOf(w)][i] # txn[w].ws[i]
        /\ last.ret = _read_chunk(db[KeyOf(w)], 0, NoSize).buf

\* C8: a write of fewer than chunk_size bytes at a cursor c that is not
\* chunk-aligned and lies inside an existing chunk (base b, c - b within the
\* chunk's length) keeps the chunk's bytes 0 .. c-b-1 and leaves every chunk
\* with a lower index as it was.
PrefixCase(chunks, c) ==
    /\ c % chunk_size # 0
    /\ c \div chunk_size \in DOMAIN chunks
    /\ c % chunk_size <= Len(chunks[c \div chunk_size])

OverwriteKeepsPrefix ==
    [][(/\ last'.op = "write" /\ last'.err = "none"
        /\ Len(last'.arg) < chunk_size
        /\ PrefixCase(db[KeyOf(last'.h)], cursor[last'.h]))
          => LET old == db[KeyOf(last'.h)]
                 new == db'[KeyOf(last'.h)]
                 c == cursor[last'.h]
                 i == c \div chunk_size
             IN  /\ i \in DOMAIN new
                 /\ Slice(new[i], 0, c % chunk_size)
                        = Slice(old[i], 0, c % chunk_size)
                 /\ \A j \in 0..(i - 1) :
                        /\ j \in DOMAIN new <=> j \in DOMAIN old
                        /\ j \in DOMAIN old => new[j] = old[j]]_vars

\* a short write into the middle of the second chunk has completed
OverwroteInsideChunk ==
    /\ last.op = "write" /\ last.err = "none"
    /\ Len(last.arg) \in 1..(chunk_size - 1)
    /\ last.cur0 > chunk_size
    /\ last.cur0 % chunk_size # 0
    /\ 0 \in DOMAIN db[KeyOf(last.h)]
    /\ cursor[last.h] = last.cur0 + Len(last.arg)

\* C9: no write shortens a chunk that existed before it, unless that chunk
\* is the highest-indexed one after the write; a boundary merge stores a
\* chunk shorter than chunk_size only if the input is shorter than the space
\* left and the chunk was shorter than chunk_size before.
NoWriteShortens ==
    [][(last'.op = "write" /\ last'.err = "none")
          => LET old == db[KeyOf(last'.h)]
                 new == db'[KeyOf(last'.h)]
                 c == cursor[last'.h]
                 i == c \div chunk_size
             IN  /\ \A j \in DOMAIN old :
                        /\ j \in DOMAIN new
                        /\ \/ Len(new[j]) >= Len(old[j])
                           \/ j = HighestIndex(new)
                 /\ (c % chunk_size # 0 /\ Len(new[i]) < chunk_size)
                        => /\ Len(last'.arg) < chunk_size - (c % chunk_size)
                           /\ Len(old[i]) < chunk_size]_vars

\* C10: write of the empty byte sequence changes no chunk and no cursor.
ZeroWriteNoOp ==
    [][(last'.op = "write" /\ last'.arg = <<>> /\ last'.err = "none")
          => (db' = db /\ cursor' = cursor)]_vars

\* C11: on a blob built by appends that holds the bytes D (written), read(n)
\* for n >= 0 from cursor c returns D[c : min(c+n, len(D))], at most n bytes,
\* and advances the cursor by the number of bytes returned.
BoundedRead ==
    (last.op = "read" /\ last.arg # <<NoSize>> /\ last.err = "none")
        => LET n == last.arg[1]
               c == last.cur0
           IN  /\ last.ret = Slice(written, c, c + n)
               /\ Len(last.ret) <= n
               /\ cursor[last.h] = c + Len(last.ret)

\* C12: right after delete(key) no chunk of the key is stored, exists(key)
\* returns false, the size a handle of the key computes is 0, and the chunks
\* of every other key are as before; exists(key) returns true exactly when
\* at least one chunk of the key is stored.
DeleteClears ==
    [][/\ last'.op = "delete"
            => /\ DOMAIN db'[last'.h] = {}
               /\ _get_size(db'[last'.h]) = 0
               /\ \A k \in AllKeys \ {last'.h} : db'[k] = db[k]
       /\ last'.op = "exists"
            => /\ last'.flag <=> (\E i \in AllChunks : i \in DOMAIN db[last'.h])
               /\ (last.op = "delete" /\ last.h = last'.h) => ~last'.flag
       /\ \A h \in Handles :
            (last.op = "delete" /\ last.h = KeyOf(h) /\ Seek(h, 0, SEEK_END))
                => cursor'[h] = 0]_vars

\* a blob of more than one chunk was deleted while a handle's cursor was at
\* its end and the other key held chunks
DeletedOneOfTwo ==
    /\ last.op = "delete" /\ last.h \in Keys
    /\ DOMAIN db[last.h] = {}
    /\ \E h \in Handles : KeyOf(h) = last.h /\ cursor[h] > chunk_size
    /\ \E k \in OtherKeys : DOMAIN db[k] # {}

\* C13: seek with whence FROM_START, FROM_CURRENT or FROM_END and any delta
\* sets the cursor to min(max(candidate, 0), size), candidate being delta,
\* current + delta or size + delta and size the blob's size at the call; the
\* cursor after a successful seek is in 0 .. size.
SeekClamps ==
    [][(/\ last'.op = "seek" /\ last'.err # "closed"
        /\ last'.arg[2] \in {SEEK_SET, SEEK_CUR, SEEK_END})
          => LET h == last'.h
                 delta == last'.arg[1]
                 whence == last'.arg[2]
                 size == _get_size(db[KeyOf(h)])
                 candidate == IF whence = SEEK_SET THEN delta
                              ELSE IF whence = SEEK_CUR THEN cursor[h] + delta
                              ELSE size + delta
             IN  /\ last'.err = "none"
                 /\ cursor'[h] = Min(Max(candidate, 0), size)
                 /\ cursor'[h] \in 0..size
                 /\ size = _get_size(db'[KeyOf(h)])]_vars

\* a seek to before the start of a blob of more than one chunk that ends
\* inside a chunk was clamped to 0
SeekClampedAtStart ==
    /\ last.op = "seek" /\ last.err = "none"
    /\ last.arg = <<-1, SEEK_SET>>
    /\ cursor[last.h] = 0
    /\ _get_size(db[KeyOf(last.h)]) > chunk_size
    /\ _get_size(db[KeyOf(last.h)]) % chunk_size # 0

\* C14: seek with a whence outside FROM_START, FROM_CURRENT, FROM_END fails
\* with the unsupported-seek-mode error and leaves the handle's cursor and
\* every stored chunk as they were.
InvalidWhence ==
    [][(/\ last'.op = "seek" /\ last'.err # "closed"
        /\ last'.arg[2] \notin {SEEK_SET, SEEK_CUR, SEEK_END})
          => /\ last'.err = "whence"
             /\ cursor' = cursor
             /\ db' = db]_vars

\* an unsupported whence was refused with the cursor inside a non-empty blob
\* and a delta that would have moved it
RefusedWhence ==
    /\ last.op = "seek" /\ last.err = "whence"
    /\ last.arg[1] # 0
    /\ cursor[last.h] > 0
    /\ cursor[last.h] < _get_size(db[KeyOf(last.h)])

\* C15: once a handle is closed it stays closed, and every later read, write
\* or seek on it fails with the closed-handle error and changes neither a
\* cursor nor a stored chunk.
ClosedForGood ==
    [][\A h \in Handles :
          closed[h]
            => /\ closed'[h]
               /\ (last'.h = h /\ last'.op \in {"read", "write", "seek"})
                    => /\ last'.err = "closed"
                       /\ cursor' = cursor
                       /\ db' = db]_vars

\* a read was refused on a closed reader that stood in front of stored
\* bytes, after the writer had been closed as well
ReadRefusedOnClosed ==
    /\ last.op = "read" /\ last.err = "closed"
    /\ closed[last.h]
    /\ \A w \in Writers : closed[w]
    /\ cursor[last.h] > 0
    /\ cursor[last.h] < _get_size(db[KeyOf(last.h)])

\* C16: a write at a cursor that is not chunk-aligned while the chunk at
\* that index is absent fails with the missing-chunk error and applies
\* nothing: every stored chunk and the handle's cursor are as before.
MissingChunkAborts ==
    [][\A w \in Writers :
          (/\ last'.op = "write" /\ last'.h = w
           /\ ~closed[w]
           /\ cursor[w] % chunk_size # 0
           /\ cursor[w] \div chunk_size \notin DOMAIN db[KeyOf(w)])
            => /\ last'.err = "missing"
               /\ db' = db
               /\ cursor' = cursor]_vars

\* a write of some bytes failed inside a chunk that was deleted under the
\* handle, while the blob held a chunk again
WriteFailedOnMissing ==
    /\ last.op = "write" /\ last.err = "missing"
    /\ Len(last.arg) > 0
    /\ cursor[last.h] = last.cur0
    /\ cursor[last.h] % chunk_size # 0
    /\ cursor[last.h] \div chunk_size \notin DOMAIN db[KeyOf(last.h)]
    /\ DOMAIN db[KeyOf(last.h)] # {}

\* C17: with the reader of fdbfs.blob, after a writer has stored a blob D of
\* more than one chunk, read() at cursor c returns every byte from c to the
\* end of the blob, D[c:].
FdbfsReadsToEnd ==
    (/\ last.op = "fdbfs.read"
     /\ Len(written) > chunk_size
     /\ last.cur0 <= Len(written))
        => last.ret = SliceFrom(written, last.cur0)

\* C18: when the commit of a write fails on a conflict the body runs again
\* with the same starting cursor and the same data and nothing of the failed
\* attempt; what is committed in the end, and the cursor assigned, are those
\* of one run of the body on the store as it is at the commit; the handle's
\* cursor changes in the commit step only, and not when the call fails.
RetryStep(w) == txn[w].pc = "commit" /\ txn'[w].pc = "body"

FailStep(w) == txn[w].pc = "body" /\ txn'[w].pc = "idle"

RetrySafe ==
    [][\A w \in Writers :
          /\ RetryStep(w)
               => /\ txn'[w].cur = cursor[w]
                  /\ txn'[w].data = txn[w].data
                  /\ txn'[w].buf = txn[w].data
                  /\ DOMAIN txn'[w].ws = {}
                  /\ db' = db /\ cursor' = cursor
          /\ (CommitStep(w) /\ txn[w].retried)
               => LET r == _write(db[KeyOf(w)], cursor[w], txn[w].data)
                  IN  /\ r.ok
                      /\ db'[KeyOf(w)] = r.chunks
                      /\ cursor'[w] = r.cursor
                      /\ last'.arg = txn[w].data /\ last'.cur0 = cursor[w]
          /\ cursor'[w] # cursor[w] => CommitStep(w)
          /\ FailStep(w) => (db' = db /\ cursor' = cursor)]_vars

\* after a conflict the body has run again, through a boundary merge and
\* into further chunks, and stands before its commit
RetriedBeforeCommit ==
    \E w \in Writers :
        /\ txn[w].pc = "commit" /\ txn[w].retried /\ ~txn[w].stale
        /\ cursor[w] % chunk_size # 0
        /\ Cardinality(DOMAIN txn[w].ws) > 1

\* C19: in every state reached from an empty store by writes, seeks, reads
\* and deletes, every stored chunk has a length in 1 .. chunk_size.
ChunkLengthBound ==
    \A k \in AllKeys : \A i \in DOMAIN db[k] :
        Len(db[k][i]) \in 1..chunk_size

\* a write that began inside a chunk has filled it and left a shorter chunk
\* after it
MergedFullThenPartial ==
    /\ last.op = "write" /\ last.err = "none"
    /\ last.cur0 % chunk_size # 0
    /\ LET chunks == db[KeyOf(last.h)]
           i == last.cur0 \div chunk_size
       IN  /\ i \in DOMAIN chunks /\ Len(chunks[i]) = chunk_size
           /\ i + 1 \in DOMAIN chunks /\ Len(chunks[i + 1]) < chunk_size

\* C20: when the blob is accessed through one handle only, after every
\* completed call of the handle its cursor c satisfies 0 <= c <= size of
\* the blob, and no write fails on a missing chunk.
CursorWithinBlob ==
    /\ \A w \in Writers : cursor[w] \in 0.._get_size(db[KeyOf(w)])
    /\ last.err # "missing"

\* after a seek back, a write inside a chunk has ended before the end of a
\* blob of more than one chunk
WroteInsideBlob ==
    /\ last.op = "write" /\ last.err = "none"
    /\ Len(last.arg) > 0
    /\ last.cur0 % chunk_size # 0
    /\ cursor[last.h] < _get_size(db[KeyOf(last.h)])
    /\ Cardinality(DOMAIN db[KeyOf(last.h)]) > 1


====
